---- MODULE Spec2Model ----
(***************************************************************************)
(* A model of make-eaf.py: the merge of two ELAN documents (file 1: phrase *)
(* transcription and translation; file 2: the interlinearised text) into a *)
(* third one.  main() is a sequential program; pc is its position, and the *)
(* loops of the four tier copy functions, of the gloss aggregation and of  *)
(* the gloss emission advance one iteration per step.                      *)
(*                                                                         *)
(* The documents are pympi Eaf objects.  What the script relies on of the  *)
(* Eaf class is modelled by the operators add_tier, add_annotation,        *)
(* add_ref_annotation, ... below, at the places the script calls them.     *)
(*                                                                         *)
(* Representation.  A Python dict {aid: (...)} is a sequence of records in *)
(* insertion order, the order in which Python iterates it.  Tuples read    *)
(* by index in the script (annotation[0], ...) are TLA+ tuples, 1-based.   *)
(* A text value that the script builds by '-'.join is a sequence of        *)
(* tokens; other text values are strings.  Annotation ids of the target    *)
(* are the numbers n of "a<n>"; annotation ids of a source document are    *)
(* the positions of the annotations in their tier.                         *)
(***************************************************************************)
EXTENDS Integers, Sequences, FiniteSets, TLC

\* ------------------------------------------------------------------ bounds
\* The longest id tier (file 2) and transcription tier (file 1).
MaxUtt == 2
\* The longest word tier of file 2.
MaxWords == 3
\* The longest morph tier of file 2.
MaxMorphs == 2
\* The longest gloss tier of file 2.
MaxGlosses == 2

\* ------------------------------------------------------- names used by main
\* Python's None where an annotation id is expected (ids are >= 1).
None == 0
\* Python's None where a text value or a tier name is expected.
NoneStr == "None"

utterance_id_target_tier == "utterance_id"
utterance_target_tier == "utterance"
utterance_translation_target_tier == "utterance_translation"
word_target_tier == "grammatical_words"
gloss_target_tier == "gloss"

utterance_id_tier_params ==
    [LINGUISTIC_TYPE_REF |-> "default-lt", PARENT_REF |-> NoneStr,
     TIER_ID |-> utterance_id_target_tier]
utterance_tier_params ==
    [LINGUISTIC_TYPE_REF |-> "Blank", PARENT_REF |-> utterance_id_target_tier,
     TIER_ID |-> utterance_target_tier]
utterance_translation_tier_params ==
    [LINGUISTIC_TYPE_REF |-> "Blank", PARENT_REF |-> utterance_target_tier,
     TIER_ID |-> utterance_translation_target_tier]
word_tier_params ==
    [LINGUISTIC_TYPE_REF |-> "word", PARENT_REF |-> utterance_target_tier,
     TIER_ID |-> word_target_tier]
gloss_tier_params ==
    [LINGUISTIC_TYPE_REF |-> "Blank", PARENT_REF |-> word_target_tier,
     TIER_ID |-> gloss_target_tier]

\* ------------------------------------------------------------------- state
VARIABLES
    eaf_1,          \* file 1: [timeslots, utterance, translation]
    eaf_2,          \* file 2: [timeslots, utterance_id, word, morph, gloss]
    eaf_3,          \* the target: [tiers, timeslots, maxaid, linguistic_types]
    pc,             \* the position in main
    err,            \* the exception that ended main, or NoneStr
    annotations,    \* the local list of the running copy function
    i,              \* the index of the running loop (1-based)
    previous_parent_id, previous_id,   \* locals of _copy_symbolic_subdivision_tier
    new_dict,       \* main's accumulator, one entry per utterance
    count,          \* main's emission counter
    word_start,     \* main's synthesized start of the word being emitted
    saved           \* whether to_file has written the target

vars == <<eaf_1, eaf_2, eaf_3, pc, err, annotations, i, previous_parent_id,
          previous_id, new_dict, count, word_start, saved>>

\* ------------------------------------------------------------ small helpers
SeqsUpTo(S, n) == UNION {[1..k -> S] : k \in 0..n}

RECURSIVE Flatten(_)
Flatten(ss) == IF ss = <<>> THEN <<>> ELSE Head(ss) \o Flatten(Tail(ss))

\* ------------------------------------------------- the Eaf class, as used
\* Eaf(): a new document has the linguistic type default-lt and the tier
\* "default".
NewTier(tier_dict) == [aligned |-> <<>>, refs |-> <<>>, attrs |-> tier_dict]

NewEaf ==
    [tiers |-> ("default" :> NewTier([LINGUISTIC_TYPE_REF |-> "default-lt",
                                       PARENT_REF |-> NoneStr,
                                       TIER_ID |-> "default"])),
     timeslots |-> <<>>,
     maxaid |-> None,
     linguistic_types |-> {"default-lt"}]

\* Eaf.remove_tier(id_tier)
remove_tier(eaf, id_tier) ==
    [eaf EXCEPT !.tiers = [t \in (DOMAIN eaf.tiers) \ {id_tier} |-> eaf.tiers[t]]]

\* Eaf.add_linguistic_type(lingtype, param_dict=...)
add_linguistic_type(eaf, lingtype) ==
    [eaf EXCEPT !.linguistic_types = @ \cup {lingtype}]

\* Eaf.add_tier(tier_id, ling=, parent=, tier_dict=): when tier_dict is given
\* it becomes the tier's attributes as it is, and ling and parent are not
\* looked at.
add_tier(eaf, tier_id, ling, parent, tier_dict) ==
    [eaf EXCEPT !.tiers = (tier_id :> NewTier(tier_dict)) @@ eaf.tiers]

\* Eaf.generate_annotation_id(): the next id; maxaid is the last one given.
generate_annotation_id(eaf) == [eaf EXCEPT !.maxaid = @ + 1]

\* Eaf.add_annotation raises ValueError for an empty, negative or
\* negative-start span.
add_annotation_raises(start, end) == start = end \/ start > end \/ start < 0

\* Eaf.add_annotation(id_tier, start, end, value): two new time slots, a new
\* id, and the annotation (start slot, end slot, value) at the end of the tier.
add_annotation(eaf, id_tier, start, end, value) ==
    LET n == Len(eaf.timeslots)
        e1 == [eaf EXCEPT !.timeslots = @ \o <<start, end>>]
        e2 == generate_annotation_id(e1)
    IN  [e2 EXCEPT !.tiers[id_tier].aligned =
            @ \o <<[aid |-> e2.maxaid, begin |-> n + 1, end |-> n + 2,
                    value |-> value]>>]

\* The tier add_ref_annotation searches: the top of tier2's hierarchy, found
\* by following PARENT_REF.  This is the patched pympi the script requires
\* ("to get top-tier in a hierarchy of ref tiers when doing
\* add_ref_annotation"; main: "parent seems to now bubble all the way to the
\* top").
RECURSIVE TopTier(_, _)
TopTier(eaf, tier2) ==
    LET p == eaf.tiers[tier2].attrs.PARENT_REF
    IN  IF p = NoneStr \/ p \notin DOMAIN eaf.tiers THEN tier2 ELSE TopTier(eaf, p)

\* The annotation add_ref_annotation refers to: the first aligned annotation
\* of that tier, in tier order, with begin <= time <= end; None if there is
\* none.
RefTarget(eaf, tier2, time) ==
    LET anns == eaf.tiers[TopTier(eaf, tier2)].aligned
        hits == {k \in 1..Len(anns) :
                    /\ eaf.timeslots[anns[k].begin] <= time
                    /\ eaf.timeslots[anns[k].end] >= time}
    IN  IF hits = {} THEN None
        ELSE anns[CHOOSE k \in hits : \A j \in hits : k <= j].aid

\* Eaf.add_ref_annotation raises ValueError when no annotation holds time.
add_ref_annotation_raises(eaf, tier2, time) == RefTarget(eaf, tier2, time) = None

\* Eaf.add_ref_annotation(id_tier, tier2, time, value, prev)
add_ref_annotation(eaf, id_tier, tier2, time, value, prev) ==
    LET e2 == generate_annotation_id(eaf)
    IN  [e2 EXCEPT !.tiers[id_tier].refs =
            @ \o <<[aid |-> e2.maxaid, ref |-> RefTarget(eaf, tier2, time),
                    value |-> value, prev |-> prev]>>]

\* Eaf.get_annotation_data_for_tier of an aligned tier of file 2:
\* (begin, end, value) with the time slots resolved.
get_annotation_data_for_tier(tier, timeslots) ==
    [k \in 1..Len(tier) |->
        <<timeslots[tier[k].begin], timeslots[tier[k].end], tier[k].value>>]

\* Eaf.get_ref_annotation_data_for_tier of a ref tier whose parent tier is
\* aligned: (begin, end, value, refvalue), where begin, end and refvalue are
\* those of the aligned annotation referred to.
get_ref_annotation_data_for_tier(tier, parent_data) ==
    [k \in 1..Len(tier) |->
        <<parent_data[tier[k].ref][1], parent_data[tier[k].ref][2],
          tier[k].value, parent_data[tier[k].ref][3]>>]

\* ------------------------------------------------------------ the input files
\* The corpora main() is run on.  An aligned annotation is chosen as
\* (begin, end, value); annotation k of a tier uses the time slots 2k-1 and 2k.
AlignedTier(spans) ==
    [k \in 1..Len(spans) |->
        [aid |-> k, begin |-> 2 * k - 1, end |-> 2 * k, value |-> spans[k][3]]]

Timeslots(spans) ==
    Flatten([k \in 1..Len(spans) |-> <<spans[k][1], spans[k][2]>>])

\* Phrases of the id tier of file 2: two contiguous ones, one after a gap
\* that repeats a segment number, and one of length zero.
ValidUttChoices == {<<0, 5, "1">>, <<5, 9, "2">>, <<6, 9, "1">>}
UttChoices == ValidUttChoices \cup {<<3, 3, "2">>}
\* Phrases of the transcription tier of file 1.
Utt1Choices == {<<0, 5, "x">>, <<5, 9, "y">>}

Utt1Text == <<"x", "y", "z", "w">>
TransText == <<"X", "Y", "Z", "W">>
WordValues == {"a", "b"}
WordText == <<"a", "b", "c", "d">>
GlossText == <<"NEG", "go", "PST", "DEF">>

File1(spans, ntrans) ==
    [timeslots |-> Timeslots(spans),
     utterance |-> AlignedTier(spans),
     translation |-> [k \in 1..ntrans |-> [ref |-> k, value |-> TransText[k]]]]

\* File 1 with the phrases of file 2's id tier, each with one translation.
MatchingFile1(spans) ==
    File1([k \in 1..Len(spans) |-> <<spans[k][1], spans[k][2], Utt1Text[k]>>],
          Len(spans))

File2(spans, words, morphs, glosses) ==
    [timeslots |-> Timeslots(spans),
     utterance_id |-> AlignedTier(spans),
     word |-> words,
     morph |-> [k \in 1..Len(morphs) |-> [ref |-> morphs[k], value |-> "m"]],
     gloss |-> [k \in 1..Len(glosses) |->
                  [ref |-> glosses[k], value |-> <<GlossText[k]>>]]]

\* The corpora come in four families, each varying one part of the input:
\*   "id tier": any id tier, nothing below it, file 1 empty;
\*   "file 1":  any file 1 against any valid id tier, no words;
\*   "words":   any word tier (any parents, in any order, texts repeated or
\*              not) under one phrase, two contiguous phrases or two phrases
\*              with the same segment number, file 1 matching the id tier;
\*   "glosses": any morph and gloss tiers under words grouped by phrase, under
\*              one or two contiguous phrases, file 1 matching.
Families == {"id tier", "file 1", "words", "glosses"}

SpansOf(fam) ==
    CASE fam = "id tier" -> SeqsUpTo(UttChoices, MaxUtt)
      [] fam = "words" -> {<<<<0, 5, "1">>>>, <<<<0, 5, "1">>, <<5, 9, "2">>>>,
                           <<<<0, 5, "1">>, <<6, 9, "1">>>>}
      [] fam = "glosses" -> {<<<<0, 5, "1">>>>, <<<<0, 5, "1">>, <<5, 9, "2">>>>}
      [] OTHER -> SeqsUpTo(ValidUttChoices, MaxUtt)

File1sOf(fam, spans) ==
    CASE fam = "id tier" -> {File1(<<>>, 0)}
      [] fam = "file 1" ->
            UNION {{File1(spans1, ntrans) : ntrans \in 0..Len(spans1)} :
                   spans1 \in SeqsUpTo(Utt1Choices, MaxUtt)}
      [] OTHER -> {MatchingFile1(spans)}

WordsOf(fam, spans) ==
    CASE fam = "words" ->
            SeqsUpTo([ref : 1..Len(spans), value : WordValues], MaxWords)
      [] fam = "glosses" ->
            {[k \in 1..Len(refs) |-> [ref |-> refs[k], value |-> WordText[k]]] :
                refs \in {r \in SeqsUpTo(1..Len(spans), MaxWords) :
                            \A k \in 1..Len(r) - 1 : r[k] <= r[k + 1]}}
      [] OTHER -> {<<>>}

MorphsOf(fam, words) ==
    IF fam = "glosses" THEN SeqsUpTo(1..Len(words), MaxMorphs) ELSE {<<>>}

GlossesOf(fam, morphs) ==
    IF fam = "glosses" THEN SeqsUpTo(1..Len(morphs), MaxGlosses) ELSE {<<>>}

\* ------------------------------------------------------------------- main
Init ==
    /\ \E fam \in Families :
       \E spans \in SpansOf(fam) :
       \E file_1 \in File1sOf(fam, spans) :
       \E words \in WordsOf(fam, spans) :
       \E morphs \in MorphsOf(fam, words) :
       \E glosses \in GlossesOf(fam, morphs) :
          /\ eaf_1 = file_1
          /\ eaf_2 = File2(spans, words, morphs, glosses)
    /\ eaf_3 = NewEaf
    /\ pc = "remove_tier"
    /\ err = NoneStr
    /\ annotations = <<>>
    /\ i = 1
    /\ previous_parent_id = NoneStr
    /\ previous_id = None
    /\ new_dict = <<>>
    /\ count = 0
    /\ word_start = 0
    /\ saved = FALSE

\* eaf_3.remove_tier("default")
RemoveDefaultTier ==
    /\ pc = "remove_tier" /\ err = NoneStr
    /\ eaf_3' = remove_tier(eaf_3, "default")
    /\ pc' = "tier_copy"
    /\ UNCHANGED <<eaf_1, eaf_2, err, annotations, i, previous_parent_id,
                   previous_id, new_dict, count, word_start, saved>>

\* ---- _tier_copy(eaf_2, eaf_3, id tier, "utterance_id", utterance_id_tier_params)
\* Faulty variant of TierCopyAnnotation: the end offset taken one off.
TierCopyAnnotation_WrongEnd(eaf, target_tier_name, annotation) ==
    add_annotation(eaf, target_tier_name, annotation[1], annotation[2] + 1,
                   annotation[3])

TierCopyAnnotation(eaf, target_tier_name, annotation) ==
    add_annotation(eaf, target_tier_name, annotation[1], annotation[2],
                   annotation[3])

TierCopyCall ==
    /\ pc = "tier_copy" /\ err = NoneStr
    /\ LET params == utterance_id_tier_params
       IN  eaf_3' = add_tier(eaf_3, utterance_id_target_tier,
                             params.LINGUISTIC_TYPE_REF, NoneStr, params)
    /\ annotations' = get_annotation_data_for_tier(eaf_2.utterance_id,
                                                   eaf_2.timeslots)
    /\ i' = 1
    /\ pc' = "tier_copy_loop"
    /\ UNCHANGED <<eaf_1, eaf_2, err, previous_parent_id, previous_id,
                   new_dict, count, word_start, saved>>

TierCopyLoop ==
    /\ pc = "tier_copy_loop" /\ err = NoneStr
    /\ i <= Len(annotations)
    /\ LET annotation == annotations[i]
       IN  IF add_annotation_raises(annotation[1], annotation[2])
           THEN /\ err' = "ValueError"
                /\ UNCHANGED <<eaf_3, i>>
           ELSE /\ eaf_3' = TierCopyAnnotation(eaf_3, utterance_id_target_tier,
                                               annotation)
                /\ i' = i + 1
                /\ UNCHANGED err
    /\ UNCHANGED <<eaf_1, eaf_2, pc, annotations, previous_parent_id,
                   previous_id, new_dict, count, word_start, saved>>

TierCopyReturn ==
    /\ pc = "tier_copy_loop" /\ err = NoneStr
    /\ i > Len(annotations)
    /\ pc' = "tier_copy_to_ref"
    /\ annotations' = <<>>
    /\ i' = 1
    /\ UNCHANGED <<eaf_1, eaf_2, eaf_3, err, previous_parent_id, previous_id,
                   new_dict, count, word_start, saved>>

\* ---- _tier_copy_to_ref(eaf_1, eaf_3, transcription tier, "utterance",
\* ---- "utterance_id", utterance_tier_params), after add_linguistic_type('Blank')
TierCopyToRefTime(annotation) == annotation[1]

TierCopyToRefCall ==
    /\ pc = "tier_copy_to_ref" /\ err = NoneStr
    /\ LET params == utterance_tier_params
       IN  eaf_3' = add_tier(add_linguistic_type(eaf_3, "Blank"),
                             utterance_target_tier, params.LINGUISTIC_TYPE_REF,
                             utterance_id_target_tier, params)
    /\ annotations' = get_annotation_data_for_tier(eaf_1.utterance,
                                                   eaf_1.timeslots)
    /\ i' = 1
    /\ pc' = "tier_copy_to_ref_loop"
    /\ UNCHANGED <<eaf_1, eaf_2, err, previous_parent_id, previous_id,
                   new_dict, count, word_start, saved>>

TierCopyToRefLoop ==
    /\ pc = "tier_copy_to_ref_loop" /\ err = NoneStr
    /\ i <= Len(annotations)
    /\ LET annotation == annotations[i]
           time == TierCopyToRefTime(annotation)
       IN  IF add_ref_annotation_raises(eaf_3, utterance_id_target_tier, time)
           THEN /\ err' = "ValueError"
                /\ UNCHANGED <<eaf_3, i>>
           ELSE /\ eaf_3' = add_ref_annotation(eaf_3, utterance_target_tier,
                                               utterance_id_target_tier, time,
                                               annotation[3], None)
                /\ i' = i + 1
                /\ UNCHANGED err
    /\ UNCHANGED <<eaf_1, eaf_2, pc, annotations, previous_parent_id,
                   previous_id, new_dict, count, word_start, saved>>

TierCopyToRefReturn ==
    /\ pc = "tier_copy_to_ref_loop" /\ err = NoneStr
    /\ i > Len(annotations)
    /\ pc' = "ref_tier_copy"
    /\ annotations' = <<>>
    /\ i' = 1
    /\ UNCHANGED <<eaf_1, eaf_2, eaf_3, err, previous_parent_id, previous_id,
                   new_dict, count, word_start, saved>>

\* ---- _ref_tier_copy(eaf_1, eaf_3, translation tier, "utterance_translation",
\* ---- "utterance", utterance_translation_tier_params)
RefTierCopyTime(annotation) == annotation[1] + 1

RefTierCopyCall ==
    /\ pc = "ref_tier_copy" /\ err = NoneStr
    /\ LET params == utterance_translation_tier_params
       IN  eaf_3' = add_tier(eaf_3, utterance_translation_target_tier,
                             params.LINGUISTIC_TYPE_REF, utterance_target_tier,
                             params)
    /\ annotations' =
          get_ref_annotation_data_for_tier(
              eaf_1.translation,
              get_annotation_data_for_tier(eaf_1.utterance, eaf_1.timeslots))
    /\ i' = 1
    /\ pc' = "ref_tier_copy_loop"
    /\ UNCHANGED <<eaf_1, eaf_2, err, previous_parent_id, previous_id,
                   new_dict, count, word_start, saved>>

RefTierCopyLoop ==
    /\ pc = "ref_tier_copy_loop" /\ err = NoneStr
    /\ i <= Len(annotations)
    /\ LET annotation == annotations[i]
           time == RefTierCopyTime(annotation)
       IN  IF add_ref_annotation_raises(eaf_3, utterance_target_tier, time)
           THEN /\ err' = "ValueError"
                /\ UNCHANGED <<eaf_3, i>>
           ELSE /\ eaf_3' = add_ref_annotation(eaf_3,
                                               utterance_translation_target_tier,
                                               utterance_target_tier, time,
                                               annotation[3], None)
                /\ i' = i + 1
                /\ UNCHANGED err
    /\ UNCHANGED <<eaf_1, eaf_2, pc, annotations, previous_parent_id,
                   previous_id, new_dict, count, word_start, saved>>

RefTierCopyReturn ==
    /\ pc = "ref_tier_copy_loop" /\ err = NoneStr
    /\ i > Len(annotations)
    /\ pc' = "copy_symbolic_subdivision_tier"
    /\ annotations' = <<>>
    /\ i' = 1
    /\ UNCHANGED <<eaf_1, eaf_2, eaf_3, err, previous_parent_id, previous_id,
                   new_dict, count, word_start, saved>>

\* ---- _copy_symbolic_subdivision_tier(eaf_2, eaf_3, word tier,
\* ---- "grammatical_words", "utterance_id", word_tier_params), after
\* ---- add_linguistic_type('word')
SubdivisionTime(annotation) == annotation[1] + 1

\* prev = previous_id if annotation[3] == previous_parent_id else None
\* (annotation[3], 0-based, is the refvalue of the tuple; the script then
\* keeps it as previous_parent_id, its length test being true of a 4-tuple)
SubdivisionPrev(annotation, prev_parent_id, prev_id) ==
    IF annotation[4] = prev_parent_id THEN prev_id ELSE None

CopySubdivisionCall ==
    /\ pc = "copy_symbolic_subdivision_tier" /\ err = NoneStr
    /\ LET params == word_tier_params
       IN  eaf_3' = add_tier(add_linguistic_type(eaf_3, "word"),
                             word_target_tier, params.LINGUISTIC_TYPE_REF,
                             utterance_id_target_tier, params)
    /\ annotations' =
          get_ref_annotation_data_for_tier(
              eaf_2.word,
              get_annotation_data_for_tier(eaf_2.utterance_id, eaf_2.timeslots))
    /\ previous_parent_id' = NoneStr
    /\ previous_id' = None
    /\ i' = 1
    /\ pc' = "copy_symbolic_subdivision_tier_loop"
    /\ UNCHANGED <<eaf_1, eaf_2, err, new_dict, count, word_start, saved>>

CopySubdivisionLoop ==
    /\ pc = "copy_symbolic_subdivision_tier_loop" /\ err = NoneStr
    /\ i <= Len(annotations)
    /\ LET annotation == annotations[i]
           prev == SubdivisionPrev(annotation, previous_parent_id, previous_id)
           time == SubdivisionTime(annotation)
       IN  IF add_ref_annotation_raises(eaf_3, utterance_id_target_tier, time)
           THEN /\ err' = "ValueError"
                /\ UNCHANGED <<eaf_3, i, previous_parent_id, previous_id>>
           ELSE /\ eaf_3' = add_ref_annotation(eaf_3, word_target_tier,
                                               utterance_id_target_tier, time,
                                               annotation[3], prev)
                /\ previous_parent_id' = annotation[4]
                /\ previous_id' = eaf_3'.maxaid
                /\ i' = i + 1
                /\ UNCHANGED err
    /\ UNCHANGED <<eaf_1, eaf_2, pc, annotations, new_dict, count, word_start,
                   saved>>

CopySubdivisionReturn ==
    /\ pc = "copy_symbolic_subdivision_tier_loop" /\ err = NoneStr
    /\ i > Len(annotations)
    /\ pc' = "aggregate"
    /\ annotations' = <<>>
    /\ i' = 1
    /\ UNCHANGED <<eaf_1, eaf_2, eaf_3, err, previous_parent_id, previous_id,
                   new_dict, count, word_start, saved>>

\* ---- the gloss aggregation of main
\* The ids (positions) of the annotations of a ref tier whose parent is ref,
\* in tier order, from position k on.
RECURSIVE Children(_, _, _)
Children(tier, ref, k) ==
    IF k > Len(tier) THEN <<>>
    ELSE IF tier[k].ref = ref THEN <<k>> \o Children(tier, ref, k + 1)
    ELSE Children(tier, ref, k + 1)

\* Faulty variant of JoinDash: a "-" after every gloss, the last one too.
JoinDash_Trailing(glosses) ==
    Flatten([k \in 1..Len(glosses) |-> glosses[k] \o <<"-">>])

\* '-'.join(glosses)
RECURSIVE JoinDash(_)
JoinDash(glosses) ==
    IF glosses = <<>> THEN <<>>
    ELSE IF Len(glosses) = 1 THEN glosses[1]
    ELSE glosses[1] \o <<"-">> \o JoinDash(Tail(glosses))

\* The list glosses of one word: for each morph of the word, in morph tier
\* order, the values of the glosses of that morph, in gloss tier order.
GlossesOfWord(eaf, word_id) ==
    LET morph_ids == Children(eaf.morph, word_id, 1)
    IN  Flatten([m \in 1..Len(morph_ids) |->
            LET gloss_ids == Children(eaf.gloss, morph_ids[m], 1)
            IN  [g \in 1..Len(gloss_ids) |-> eaf.gloss[gloss_ids[g]].value]])

\* word_gloss of one utterance, before the two numbers are put in front:
\* [word text, joined glosses] of each word of the utterance, in word tier
\* order.
WordGloss(eaf, utterance_id) ==
    LET word_ids == Children(eaf.word, utterance_id, 1)
    IN  [w \in 1..Len(word_ids) |->
            <<eaf.word[word_ids[w]].value,
              JoinDash(GlossesOfWord(eaf, word_ids[w]))>>]

\* Faulty variant of WordDur: the quotient rounded up.
WordDur_Ceil(utt_dur, num_segments) ==
    (utt_dur + num_segments - 1) \div num_segments

\* int(utt_dur / num_segments), num_segments not 0: the quotient cut towards 0
WordDur(utt_dur, num_segments) ==
    IF utt_dur >= 0 THEN utt_dur \div num_segments
    ELSE -((-utt_dur) \div num_segments)

\* Faulty variant of AggregateLoop: an utterance with no word is given the
\* duration 0 instead of stopping main.
AggregateLoop_SkipEmpty ==
    /\ pc = "aggregate" /\ err = NoneStr
    /\ i <= Len(eaf_2.utterance_id)
    /\ LET utterance == eaf_2.utterance_id[i]
           utt_start == eaf_2.timeslots[utterance.begin]
           utt_end == eaf_2.timeslots[utterance.end]
           word_gloss == WordGloss(eaf_2, utterance.aid)
           num_segments == Len(word_gloss)
           utt_dur == utt_end - utt_start
       IN  new_dict' = Append(new_dict,
                          [utterance_id |-> utterance.aid,
                           utt_start |-> utt_start,
                           word_dur |-> IF num_segments = 0 THEN 0
                                        ELSE WordDur(utt_dur, num_segments),
                           word_gloss |-> word_gloss])
    /\ i' = i + 1
    /\ UNCHANGED <<eaf_1, eaf_2, eaf_3, pc, err, annotations,
                   previous_parent_id, previous_id, count, word_start, saved>>

AggregateLoop ==
    /\ pc = "aggregate" /\ err = NoneStr
    /\ i <= Len(eaf_2.utterance_id)
    /\ LET utterance == eaf_2.utterance_id[i]
           utt_start == eaf_2.timeslots[utterance.begin]
           utt_end == eaf_2.timeslots[utterance.end]
           word_gloss == WordGloss(eaf_2, utterance.aid)
           num_segments == Len(word_gloss)
           utt_dur == utt_end - utt_start
       IN  IF num_segments = 0
           THEN /\ err' = "ZeroDivisionError"
                /\ UNCHANGED <<new_dict, i>>
           ELSE /\ new_dict' = Append(new_dict,
                                  [utterance_id |-> utterance.aid,
                                   utt_start |-> utt_start,
                                   word_dur |-> WordDur(utt_dur, num_segments),
                                   word_gloss |-> word_gloss])
                /\ i' = i + 1
                /\ UNCHANGED err
    /\ UNCHANGED <<eaf_1, eaf_2, eaf_3, pc, annotations, previous_parent_id,
                   previous_id, count, word_start, saved>>

\* eaf_3.add_tier(gloss_target_tier, ling='Blank', parent=word_target_tier,
\*                tier_dict=gloss_tier_params), once every utterance is done
AddGlossTier ==
    /\ pc = "aggregate" /\ err = NoneStr
    /\ i > Len(eaf_2.utterance_id)
    /\ eaf_3' = add_tier(eaf_3, gloss_target_tier, "Blank", word_target_tier,
                         gloss_tier_params)
    /\ pc' = "emit"
    /\ i' = 1
    /\ count' = 0
    /\ UNCHANGED <<eaf_1, eaf_2, err, annotations, previous_parent_id,
                   previous_id, new_dict, word_start, saved>>

\* ---- the gloss emission of main
\* word_start = utt_start + word_dur * count
WordStart(utt_start, word_dur, cnt) == utt_start + word_dur * cnt

\* The inner loop over the target word tier: one new gloss annotation
\* (aid, value, prev = None) for every word annotation whose value is ann[0].
EmitGlosses(eaf, ann) ==
    LET words == eaf.tiers[word_target_tier].refs
        hits == SelectSeq(words, LAMBDA w : ann[1] = w.value)
    IN  [eaf EXCEPT
            !.maxaid = @ + Len(hits),
            !.tiers[gloss_target_tier].refs =
                @ \o [k \in 1..Len(hits) |->
                        [aid |-> eaf.maxaid + k, ref |-> hits[k].aid,
                         value |-> ann[2], prev |-> None]]]

EmitLoop ==
    /\ pc = "emit" /\ err = NoneStr
    /\ i <= Len(new_dict)
    /\ count < Len(new_dict[i].word_gloss)
    /\ LET annotation == new_dict[i]
           ann == annotation.word_gloss[count + 1]
       IN  /\ word_start' = WordStart(annotation.utt_start, annotation.word_dur,
                                      count)
           /\ eaf_3' = EmitGlosses(eaf_3, ann)
    /\ count' = count + 1
    /\ UNCHANGED <<eaf_1, eaf_2, pc, err, annotations, i, previous_parent_id,
                   previous_id, new_dict, saved>>

\* The end of one entry of new_dict; the next one starts with count = 0.
EmitNext ==
    /\ pc = "emit" /\ err = NoneStr
    /\ i <= Len(new_dict)
    /\ count = Len(new_dict[i].word_gloss)
    /\ i' = i + 1
    /\ count' = 0
    /\ UNCHANGED <<eaf_1, eaf_2, eaf_3, pc, err, annotations,
                   previous_parent_id, previous_id, new_dict, word_start, saved>>

\* eaf_3.to_file(file_3)
ToFile ==
    /\ pc = "emit" /\ err = NoneStr
    /\ i > Len(new_dict)
    /\ saved' = TRUE
    /\ pc' = "done"
    /\ UNCHANGED <<eaf_1, eaf_2, eaf_3, err, annotations, i,
                   previous_parent_id, previous_id, new_dict, count, word_start>>

Next ==
    \/ RemoveDefaultTier
    \/ TierCopyCall \/ TierCopyLoop \/ TierCopyReturn
    \/ TierCopyToRefCall \/ TierCopyToRefLoop \/ TierCopyToRefReturn
    \/ RefTierCopyCall \/ RefTierCopyLoop \/ RefTierCopyReturn
    \/ CopySubdivisionCall \/ CopySubdivisionLoop \/ CopySubdivisionReturn
    \/ AggregateLoop \/ AddGlossTier
    \/ EmitLoop \/ EmitNext \/ ToFile

Spec == Init /\ [][Next]_vars

\* ============================================================== properties
\* The positions of main, in program order.
PcSeq ==
    <<"remove_tier", "tier_copy", "tier_copy_loop", "tier_copy_to_ref",
      "tier_copy_to_ref_loop", "ref_tier_copy", "ref_tier_copy_loop",
      "copy_symbolic_subdivision_tier", "copy_symbolic_subdivision_tier_loop",
      "aggregate", "emit", "done">>

PcPos(p) == CHOOSE k \in 1..Len(PcSeq) : PcSeq[k] = p

\* main has left position p behind (whether or not it failed later).
PcAfter(p) == PcPos(pc) > PcPos(p)

\* The j-th smallest element of a finite set of numbers.
Nth(S, j) == CHOOSE x \in S : Cardinality({y \in S : y < x}) = j - 1

\* Source side: the positions in file 2's word tier of the words of utterance u.
WordsOfUtt(u) == {w \in 1..Len(eaf_2.word) : eaf_2.word[w].ref = u}

TargetIds == eaf_3.tiers[utterance_id_target_tier].aligned
TargetWords == eaf_3.tiers[word_target_tier].refs

\* ---------------------------------------------------------------------- C1
\* C1: once _tier_copy has returned, the target utterance_id tier has as many
\* aligned annotations as file 2's id tier, and the k-th one has the start
\* offset, the end offset and the value of the k-th source annotation.
C1_IndependentCopyFidelity ==
    PcAfter("tier_copy_loop") =>
        /\ Len(TargetIds) = Len(eaf_2.utterance_id)
        /\ \A k \in 1..Len(TargetIds) :
              /\ eaf_3.timeslots[TargetIds[k].begin]
                    = eaf_2.timeslots[eaf_2.utterance_id[k].begin]
              /\ eaf_3.timeslots[TargetIds[k].end]
                    = eaf_2.timeslots[eaf_2.utterance_id[k].end]
              /\ TargetIds[k].value = eaf_2.utterance_id[k].value

\* Two different phrases have been copied and main has gone on.
C1_Witness ==
    /\ PcAfter("tier_copy_loop")
    /\ Len(eaf_2.utterance_id) = 2
    /\ eaf_2.utterance_id[1].value # eaf_2.utterance_id[2].value
    /\ Len(TargetIds) = 2

\* ---------------------------------------------------------------------- C4
\* Source side: the (morph, gloss) positions below word w, and their order:
\* by morph position, then by gloss position.
GlossPairs(w) ==
    {mg \in (1..Len(eaf_2.morph)) \X (1..Len(eaf_2.gloss)) :
        eaf_2.morph[mg[1]].ref = w /\ eaf_2.gloss[mg[2]].ref = mg[1]}

PairBefore(p, q) == p[1] < q[1] \/ (p[1] = q[1] /\ p[2] < q[2])

NthPair(P, j) ==
    CHOOSE p \in P : Cardinality({q \in P : PairBefore(q, p)}) = j - 1

\* The gloss values below word w (each a single token in the corpora above)
\* with a "-" between any two of them.
ExpectedGloss(w) ==
    LET P == GlossPairs(w)
        n == Cardinality(P)
    IN  IF n = 0 THEN <<>>
        ELSE [t \in 1..(2 * n - 1) |->
                IF t % 2 = 1
                THEN eaf_2.gloss[NthPair(P, (t + 1) \div 2)[2]].value[1]
                ELSE "-"]

\* C4: every entry of new_dict lists the words of its utterance in word tier
\* order, each with its morphs' gloss values joined with "-" in morph order;
\* a word with no morph (or no gloss) has the empty gloss.
C4_GlossConcatenation ==
    \A e \in 1..Len(new_dict) :
        LET W == WordsOfUtt(new_dict[e].utterance_id)
            pairs == new_dict[e].word_gloss
        IN  /\ Len(pairs) = Cardinality(W)
            /\ \A j \in 1..Len(pairs) :
                  pairs[j] = <<eaf_2.word[Nth(W, j)].value,
                               ExpectedGloss(Nth(W, j))>>

\* An entry has been recorded with a word of two glosses whose morph order
\* is not their gloss tier order, and a word with no gloss.
C4_Witness ==
    \E e \in 1..Len(new_dict) :
        LET W == WordsOfUtt(new_dict[e].utterance_id)
        IN  /\ \E w \in W : \E p, q \in GlossPairs(w) : p[1] < q[1] /\ p[2] > q[2]
            /\ \E j \in 1..Len(new_dict[e].word_gloss) :
                  Len(new_dict[e].word_gloss[j][2]) = 3
            /\ \E j \in 1..Len(new_dict[e].word_gloss) :
                  new_dict[e].word_gloss[j][2] = <<>>

\* ---------------------------------------------------------------------- C5
\* floor(a / n), stated by its defining inequalities.
Floor(a, n) == CHOOSE d \in 0..a : d * n <= a /\ a < (d + 1) * n

\* Source side: the offsets of utterance u of file 2's id tier.
UttStart(u) == eaf_2.timeslots[eaf_2.utterance_id[u].begin]
UttEnd(u) == eaf_2.timeslots[eaf_2.utterance_id[u].end]

\* C5: for an utterance [S, E) with n >= 1 words the recorded word duration d
\* is floor((E - S) / n) and the recorded start is S; the start computed for
\* the word of index k (0-based) is S + d * k, so S for the first word, and
\* the span [start, start + d) does not pass E.
C5_DurationSynthesis ==
    /\ \A e \in 1..Len(new_dict) :
          LET u == new_dict[e].utterance_id
              n == Cardinality(WordsOfUtt(u))
              d == new_dict[e].word_dur
          IN  /\ n >= 1
              /\ new_dict[e].utt_start = UttStart(u)
              /\ d * n <= UttEnd(u) - UttStart(u)
              /\ UttEnd(u) - UttStart(u) < (d + 1) * n
    /\ (pc = "emit" /\ i <= Len(new_dict) /\ count >= 1) =>
          LET u == new_dict[i].utterance_id
              d == Floor(UttEnd(u) - UttStart(u), Cardinality(WordsOfUtt(u)))
          IN  /\ word_start = UttStart(u) + d * (count - 1)
              /\ (count = 1 => word_start = UttStart(u))
              /\ word_start + d <= UttEnd(u)

\* The second word of an utterance whose duration its word count does not
\* divide has been given its start.
C5_Witness ==
    /\ pc = "emit" /\ i <= Len(new_dict) /\ count = 2
    /\ LET u == new_dict[i].utterance_id
       IN  (UttEnd(u) - UttStart(u)) % Cardinality(WordsOfUtt(u)) # 0

\* ---------------------------------------------------------------------- C8
ZeroWordUtt == \E u \in 1..Len(eaf_2.utterance_id) : WordsOfUtt(u) = {}

FiveTiers ==
    {utterance_id_target_tier, utterance_target_tier,
     utterance_translation_target_tier, word_target_tier, gloss_target_tier}

\* C8: when an utterance of the id tier has no word, the gloss tier is never
\* created and the target is never written: main stops in the aggregation, and
\* if it reaches the utterance it stops there with the division error.  The
\* target is written only at the end of main, with no exception raised and
\* all five tiers made.
C8_EmptyGroupAborts ==
    /\ ZeroWordUtt =>
          /\ gloss_target_tier \notin DOMAIN eaf_3.tiers
          /\ ~saved
          /\ pc \notin {"emit", "done"}
          /\ (pc = "aggregate" /\ err # NoneStr) =>
                /\ err = "ZeroDivisionError"
                /\ WordsOfUtt(eaf_2.utterance_id[i].aid) = {}
    /\ saved =>
          /\ pc = "done" /\ err = NoneStr
          /\ Len(new_dict) = Len(eaf_2.utterance_id)
          /\ FiveTiers \subseteq DOMAIN eaf_3.tiers

\* The first utterance was aggregated and the second, with no word, stopped
\* main.
C8_Witness ==
    /\ ZeroWordUtt
    /\ err = "ZeroDivisionError"
    /\ Len(new_dict) = 1
    /\ TargetWords # <<>>

\* ---------------------------------------------------------------------- C2
\* C2: once _copy_symbolic_subdivision_tier has returned, the target words
\* that come from the words of one source parent annotation have exactly one
\* head (no previous-link), and every other one's previous-link is the id of
\* the target word generated just before it for the same parent.  (The k-th
\* target word comes from the k-th source word.)
C2_SubdivisionChains ==
    (PcAfter("copy_symbolic_subdivision_tier_loop")
        /\ Len(TargetWords) = Len(eaf_2.word)) =>
        \A u \in 1..Len(eaf_2.utterance_id) :
            LET G == WordsOfUtt(u)
            IN  G # {} =>
                  /\ Cardinality({k \in G : TargetWords[k].prev = None}) = 1
                  /\ \A k \in G :
                        TargetWords[k].prev # None =>
                            \E j \in G :
                                /\ j < k
                                /\ \A h \in G : ~(j < h /\ h < k)
                                /\ TargetWords[k].prev = TargetWords[j].aid

\* ---------------------------------------------------------------------- C3
\* File 1's transcription tier has the phrases of the target parent tier:
\* as many, with the same offsets, in the same order.
SameSegmentation ==
    /\ Len(eaf_1.utterance) = Len(eaf_2.utterance_id)
    /\ \A k \in 1..Len(eaf_1.utterance) :
          /\ eaf_1.timeslots[eaf_1.utterance[k].begin] = UttStart(k)
          /\ eaf_1.timeslots[eaf_1.utterance[k].end] = UttEnd(k)

TargetUtterances == eaf_3.tiers[utterance_target_tier].refs

\* C3: once _tier_copy_to_ref has returned, the k-th annotation of the target
\* utterance tier has the value of the k-th annotation of file 1's
\* transcription tier and refers to the k-th annotation of the target
\* utterance_id tier, whenever the two tiers have the same phrases.
C3_PositionalParents ==
    (PcAfter("tier_copy_to_ref_loop") /\ SameSegmentation) =>
        /\ Len(TargetUtterances) = Len(eaf_1.utterance)
        /\ \A k \in 1..Len(TargetUtterances) :
              /\ TargetUtterances[k].value = eaf_1.utterance[k].value
              /\ TargetUtterances[k].ref = TargetIds[k].aid

\* ---------------------------------------------------------------------- C6
DeclaredParent(t) == eaf_3.tiers[t].attrs.PARENT_REF

\* C6: after a successful merge the target has exactly the five tiers, and
\* their declared parents are: utterance_id none, utterance -> utterance_id,
\* utterance_translation -> utterance, grammatical_words -> utterance_id,
\* gloss -> grammatical_words.
C6_TargetTiers ==
    (pc = "done" /\ err = NoneStr) =>
        /\ DOMAIN eaf_3.tiers = FiveTiers
        /\ DeclaredParent(utterance_id_target_tier) = NoneStr
        /\ DeclaredParent(utterance_target_tier) = utterance_id_target_tier
        /\ DeclaredParent(utterance_translation_target_tier)
              = utterance_target_tier
        /\ DeclaredParent(word_target_tier) = utterance_id_target_tier
        /\ DeclaredParent(gloss_target_tier) = word_target_tier

\* ---------------------------------------------------------------------- C7
\* The number of annotations of the target word tier whose value is text.
Candidates(text) ==
    Cardinality({k \in 1..Len(TargetWords) : TargetWords[k].value = text})

\* The pairs of new_dict the emission has gone through, as (entry, index).
EmittedPairs ==
    {ej \in (1..Len(new_dict)) \X (1..MaxWords + 1) :
        /\ pc \in {"emit", "done"}
        /\ ej[2] <= Len(new_dict[ej[1]].word_gloss)
        /\ (ej[1] < i \/ (ej[1] = i /\ ej[2] <= count))}

\* C7: a pair whose word text has no candidate or more than one in the target
\* word tier stops the merge: the emission never goes through such a pair
\* without an exception, and the target is not written when there is one.
C7_AmbiguousMatchAborts ==
    /\ \A ej \in EmittedPairs :
          Candidates(new_dict[ej[1]].word_gloss[ej[2]][1]) # 1 => err # NoneStr
    /\ saved =>
          \A e \in 1..Len(new_dict) :
              \A j \in 1..Len(new_dict[e].word_gloss) :
                  Candidates(new_dict[e].word_gloss[j][1]) = 1

\* ---------------------------------------------------------------------- C9
AnnotationIds(t) ==
    {eaf_3.tiers[t].aligned[k].aid : k \in 1..Len(eaf_3.tiers[t].aligned)}
        \cup {eaf_3.tiers[t].refs[k].aid : k \in 1..Len(eaf_3.tiers[t].refs)}

\* C9: in every state, every reference annotation of the target refers to an
\* annotation of the tier declared as the parent of its own tier.
C9_ReferentialIntegrity ==
    \A t \in DOMAIN eaf_3.tiers :
        \A k \in 1..Len(eaf_3.tiers[t].refs) :
            /\ DeclaredParent(t) \in DOMAIN eaf_3.tiers
            /\ eaf_3.tiers[t].refs[k].ref \in AnnotationIds(DeclaredParent(t))

\* --------------------------------------------------------------------- C10
TargetGlosses == eaf_3.tiers[gloss_target_tier].refs

\* C10: after a successful merge every annotation of grammatical_words has
\* exactly one gloss annotation referring to it, with the joined gloss of the
\* source word it was copied from and no previous-link, and the gloss tier is
\* as long as the grammatical_words tier.
C10_OneGlossPerWord ==
    (pc = "done" /\ err = NoneStr) =>
        /\ Len(TargetGlosses) = Len(TargetWords)
        /\ \A k \in 1..Len(TargetWords) :
              /\ Cardinality({g \in 1..Len(TargetGlosses) :
                        TargetGlosses[g].ref = TargetWords[k].aid}) = 1
              /\ \A g \in 1..Len(TargetGlosses) :
                    TargetGlosses[g].ref = TargetWords[k].aid =>
                        /\ TargetGlosses[g].value = ExpectedGloss(k)
                        /\ TargetGlosses[g].prev = None

====
